---- MODULE Spec2Model ----
(***************************************************************************)
(* A model of LorenzMachine.py: Wheel, WheelSet, MotorWheelSet and         *)
(* LorenzMachine.  Wheel objects are mutable and are held by reference, so *)
(* the wheels live in a heap (a function from object identities to wheel   *)
(* records) and a wheel set is a tuple of identities.  A raised Python     *)
(* exception is the "exc" field of an operation's outcome; the heap of the *)
(* outcome holds whatever the operation had mutated before it raised.      *)
(***************************************************************************)
EXTENDS Integers, Sequences, FiniteSets, TLC

VARIABLES heap, machine, initial, fed, out, call, ret

vars == <<heap, machine, initial, fed, out, call, ret>>

\* ------------------------------------------------------------------ bounds

\* longest run of symbols fed to one machine
MaxLen == 2

\* largest size of a freely chosen wheel
MaxSize == 2

\* longest run of a machine stepped on its own
MaxRun == 54

\* wheels per K or S wheel set, wheels of the motor wheel set
NumKS == 5

NumM == 2

\* width of one formatted symbol, '{0:05b}'
FormatWidth == 5

\* ------------------------------------------------- Python's int operations

NoExc == "none"

RECURSIVE XOR(_, _)
\* a ^ b on non-negative ints
XOR(a, b) ==
    IF a = 0 THEN b
    ELSE IF b = 0 THEN a
    ELSE (((a % 2) + (b % 2)) % 2) + (2 * XOR(a \div 2, b \div 2))

\* a % n for n # 0: the result takes the sign of the divisor
PyMod(a, n) == IF n > 0 THEN a % n ELSE 0 - ((0 - a) % (0 - n))

RECURSIVE Reverse(_)
\* result[::-1]
Reverse(s) == IF s = <<>> THEN <<>> ELSE Reverse(Tail(s)) \o <<Head(s)>>

RECURSIVE ParseBase2(_, _)
\* the value of a string of binary digits read left to right, acc so far
ParseBase2(digits, acc) ==
    IF digits = <<>> THEN acc
    ELSE ParseBase2(Tail(digits), (2 * acc) + Head(digits))

\* int('0b' + ''.join(str(i) for i in digits), base=2), for digits in 0..9:
\* no digit, or a digit that is neither 0 nor 1, is a ValueError
IntBase2(digits) ==
    IF digits = <<>> \/ \E i \in 1..Len(digits) : digits[i] \notin {0, 1}
    THEN [exc |-> "ValueError", value |-> 0]
    ELSE [exc |-> NoExc, value |-> ParseBase2(digits, 0)]

RECURSIVE Bin(_)
\* the binary digits of n >= 0, most significant first, "0" for 0
Bin(n) ==
    IF n < 2 THEN <<IF n = 1 THEN "1" ELSE "0">>
    ELSE Bin(n \div 2) \o <<IF n % 2 = 1 THEN "1" ELSE "0">>

RECURSIVE PadLeft(_, _)
PadLeft(s, width) == IF Len(s) >= width THEN s ELSE PadLeft(<<"0">> \o s, width)

\* a format without the zero padding, '{0:b}'
FormatNoPad(number) == Bin(number)

\* '{0:05b}'.format(number)
Format05b(number) == PadLeft(Bin(number), FormatWidth)

\* the decimal digits
Digits == <<"0", "1", "2", "3", "4", "5", "6", "7", "8", "9">>

RECURSIVE StrInt(_)
\* str(n) of an int n >= 0, as the sequence of its characters
StrInt(n) ==
    IF n < Len(Digits) THEN <<Digits[n + 1]>>
    ELSE StrInt(n \div Len(Digits)) \o <<Digits[(n % Len(Digits)) + 1]>>

RECURSIVE JoinInts(_, _)
\* the elements of a list of ints from the i-th on, each as str, joined by ", "
JoinInts(list, i) ==
    IF i > Len(list) THEN <<>>
    ELSE StrInt(list[i]) \o (IF i < Len(list) THEN <<", ">> ELSE <<>>) \o JoinInts(list, i + 1)

\* str(list) of a list of ints
StrList(list) == <<"[">> \o JoinInts(list, 1) \o <<"]">>

\* ------------------------------------------------------------------- Wheel

\* Wheel(wheel_name, wheel_size, initial_position, wheel_data)
Wheel(wheel_name, wheel_size, initial_position, wheel_data) ==
    [wheel_name |-> wheel_name, wheel_data |-> wheel_data,
     wheel_size |-> wheel_size, current_position |-> initial_position]

\* an advance that wraps one position too late
WheelAdvanceWrapLate(h, w) ==
    IF h[w].wheel_size = 0
    THEN [exc |-> "ZeroDivisionError", heap |-> h]
    ELSE [exc |-> NoExc,
          heap |-> [h EXCEPT ![w].current_position =
                        PyMod(h[w].current_position + 1, h[w].wheel_size + 1)]]

\* Wheel.advance on the wheel object w of heap h
Wheel_advance(h, w) ==
    IF h[w].wheel_size = 0
    THEN [exc |-> "ZeroDivisionError", heap |-> h]
    ELSE [exc |-> NoExc,
          heap |-> [h EXCEPT ![w].current_position =
                        PyMod(h[w].current_position + 1, h[w].wheel_size)]]

\* wheel_data[current_position]: a list index, negative ones count from the end
ListIndex(list, index) ==
    IF 0 <= index /\ index < Len(list)
    THEN [exc |-> NoExc, value |-> list[index + 1]]
    ELSE IF index < 0 /\ 0 - index <= Len(list)
    THEN [exc |-> NoExc, value |-> list[Len(list) + index + 1]]
    ELSE [exc |-> "IndexError", value |-> 0]

\* Wheel.get_current_value
Wheel_get_current_value(h, w) == ListIndex(h[w].wheel_data, h[w].current_position)

\* Wheel.get_current_position
Wheel_get_current_position(h, w) == h[w].current_position

\* Wheel.get_config: the text, as the sequence of the pieces concatenated
Wheel_get_config(h, w) ==
    <<"wheel name: ", h[w].wheel_name, "; current_position: ">>
       \o StrInt(h[w].current_position)
       \o <<"; wheel_size: ">> \o StrInt(h[w].wheel_size)
       \o <<"; wheel_data: ">> \o StrList(h[w].wheel_data)

\* ---------------------------------------------------------------- WheelSet

\* the element of a one-element set: Only({F(v) : v \in {e}}) is F(e) with e
\* evaluated once
Only(S) == CHOOSE x \in S : TRUE

RECURSIVE AdvanceEach(_, _, _)
\* for wheel in self.wheels: wheel.advance(), from the i-th wheel on
AdvanceEach(h, wheels, i) ==
    IF i > Len(wheels) THEN [exc |-> NoExc, heap |-> h]
    ELSE Only({IF r.exc # NoExc THEN r ELSE AdvanceEach(r.heap, wheels, i + 1)
               : r \in {Wheel_advance(h, wheels[i])}})

\* a loop over self.wheels[1:]: the first wheel of the set is never advanced
WheelSetAdvanceSkipFirst(h, wheels) == AdvanceEach(h, wheels, 2)

\* WheelSet.advance
WheelSet_advance(h, wheels) == AdvanceEach(h, wheels, 1)

RECURSIVE ReadEach(_, _, _, _)
\* the loop appending each wheel's current value to result
ReadEach(h, wheels, i, result) ==
    IF i > Len(wheels) THEN [exc |-> NoExc, value |-> result]
    ELSE Only({IF r.exc # NoExc THEN [exc |-> r.exc, value |-> result]
               ELSE ReadEach(h, wheels, i + 1, Append(result, r.value))
               : r \in {Wheel_get_current_value(h, wheels[i])}})

\* an aggregate value that leaves out result[::-1]: the first wheel becomes
\* the most significant bit
GetCurrentValueUnreversed(h, wheels) ==
    Only({IF r.exc # NoExc THEN [exc |-> r.exc, value |-> 0]
          ELSE IntBase2(r.value)
          : r \in {ReadEach(h, wheels, 1, <<>>)}})

\* WheelSet.get_current_value
WheelSet_get_current_value(h, wheels) ==
    Only({IF r.exc # NoExc THEN [exc |-> r.exc, value |-> 0]
          ELSE IntBase2(Reverse(r.value))
          : r \in {ReadEach(h, wheels, 1, <<>>)}})

RECURSIVE JoinConfigs(_, _, _)
\* '\n'.join of the wheels' configs, from the i-th wheel on
JoinConfigs(h, wheels, i) ==
    IF i > Len(wheels) THEN <<>>
    ELSE Wheel_get_config(h, wheels[i])
            \o (IF i < Len(wheels) THEN <<"\n">> ELSE <<>>)
            \o JoinConfigs(h, wheels, i + 1)

\* WheelSet.get_config
WheelSet_get_config(h, wheels) == JoinConfigs(h, wheels, 1)

\* ----------------------------------------------------------- MotorWheelSet

\* self.wheels[i] of a tuple of wheels, i counted from 0
TupleIndex(wheels, i) ==
    IF i < Len(wheels) THEN [exc |-> NoExc, wheel |-> wheels[i + 1]]
    ELSE [exc |-> "IndexError", wheel |-> 0]

\* a gate that reads the bit of wheel 1 where it should read wheel 0
MotorGateOwnBit(h, wheels) ==
    Only({IF v1.exc # NoExc THEN [exc |-> v1.exc, heap |-> h]
          ELSE IF v1.value # 1 THEN [exc |-> NoExc, heap |-> h]
          ELSE Wheel_advance(h, TupleIndex(wheels, 1).wheel)
          : v1 \in {Wheel_get_current_value(h, TupleIndex(wheels, 1).wheel)}})

\* if self.wheels[0].get_current_value() == 1: self.wheels[1].advance()
MotorGate(h, wheels) ==
    Only({IF v0.exc # NoExc THEN [exc |-> v0.exc, heap |-> h]
          ELSE IF v0.value # 1 THEN [exc |-> NoExc, heap |-> h]
          ELSE IF TupleIndex(wheels, 1).exc # NoExc
          THEN [exc |-> TupleIndex(wheels, 1).exc, heap |-> h]
          ELSE Wheel_advance(h, TupleIndex(wheels, 1).wheel)
          : v0 \in {Wheel_get_current_value(h, TupleIndex(wheels, 0).wheel)}})

\* a motor advance that reads the first wheel's bit before advancing it
MotorAdvanceOldBit(h, wheels) ==
    Only({IF a0.exc # NoExc THEN a0
          ELSE IF Wheel_get_current_value(h, wheels[1]).value # 1 THEN a0
          ELSE Wheel_advance(a0.heap, wheels[2])
          : a0 \in {Wheel_advance(h, wheels[1])}})

\* MotorWheelSet.advance
MotorWheelSet_advance(h, wheels) ==
    IF TupleIndex(wheels, 0).exc # NoExc
    THEN [exc |-> TupleIndex(wheels, 0).exc, heap |-> h]
    ELSE Only({IF a0.exc # NoExc THEN a0 ELSE MotorGate(a0.heap, wheels)
               : a0 \in {Wheel_advance(h, TupleIndex(wheels, 0).wheel)}})

\* MotorWheelSet.is_active
MotorWheelSet_is_active(h, wheels) ==
    IF TupleIndex(wheels, 1).exc # NoExc
    THEN [exc |-> TupleIndex(wheels, 1).exc, value |-> FALSE]
    ELSE Only({[exc |-> v1.exc, value |-> v1.exc = NoExc /\ v1.value = 1]
               : v1 \in {Wheel_get_current_value(h, TupleIndex(wheels, 1).wheel)}})

\* ----------------------------------------------------------- LorenzMachine

\* LorenzMachine(k_set, s_set, m_set)
LorenzMachine(k_set, s_set, m_set) ==
    [k_set |-> k_set, s_set |-> s_set, m_set |-> m_set]

\* if self.m_set.is_active(): self.s_set.advance()
SGate(h, self) ==
    Only({IF active.exc # NoExc THEN [exc |-> active.exc, heap |-> h]
          ELSE IF active.value THEN WheelSet_advance(h, self.s_set)
          ELSE [exc |-> NoExc, heap |-> h]
          : active \in {MotorWheelSet_is_active(h, self.m_set)}})

\* an advance that reads is_active before the motor wheel set has advanced
AdvanceGateBeforeMotor(h, self) ==
    Only({IF k.exc # NoExc THEN k
          ELSE Only({IF m.exc # NoExc THEN m
                     ELSE IF MotorWheelSet_is_active(k.heap, self.m_set).value
                     THEN WheelSet_advance(m.heap, self.s_set)
                     ELSE m
                     : m \in {MotorWheelSet_advance(k.heap, self.m_set)}})
          : k \in {WheelSet_advance(h, self.k_set)}})

\* LorenzMachine.advance
LorenzMachine_advance(h, self) ==
    Only({IF k.exc # NoExc THEN k
          ELSE Only({IF m.exc # NoExc THEN m ELSE SGate(m.heap, self)
                     : m \in {MotorWheelSet_advance(k.heap, self.m_set)}})
          : k \in {WheelSet_advance(h, self.k_set)}})

\* a combination that adds the K value instead of XORing it: char + k ^ s
CombineAdd(h, self, char) ==
    Only({IF k.exc # NoExc THEN [exc |-> k.exc, value |-> 0]
          ELSE Only({IF s.exc # NoExc THEN [exc |-> s.exc, value |-> 0]
                     ELSE [exc |-> NoExc, value |-> XOR(char + k.value, s.value)]
                     : s \in {WheelSet_get_current_value(h, self.s_set)}})
          : k \in {WheelSet_get_current_value(h, self.k_set)}})

\* char ^ self.k_set.get_current_value() ^ self.s_set.get_current_value()
Combine(h, self, char) ==
    Only({IF k.exc # NoExc THEN [exc |-> k.exc, value |-> 0]
          ELSE Only({IF s.exc # NoExc THEN [exc |-> s.exc, value |-> 0]
                     ELSE [exc |-> NoExc, value |-> XOR(XOR(char, k.value), s.value)]
                     : s \in {WheelSet_get_current_value(h, self.s_set)}})
          : k \in {WheelSet_get_current_value(h, self.k_set)}})

\* an encryption that steps the machine only for a code other than 0
EncryptStepOnNonzero(h, self, char) ==
    Only({IF result.exc # NoExc THEN [exc |-> result.exc, heap |-> h, result |-> 0]
          ELSE IF char = 0 THEN [exc |-> NoExc, heap |-> h, result |-> result.value]
          ELSE Only({[exc |-> a.exc, heap |-> a.heap,
                      result |-> IF a.exc = NoExc THEN result.value ELSE 0]
                     : a \in {LorenzMachine_advance(h, self)}})
          : result \in {Combine(h, self, char)}})

\* an encryption that advances before it reads the wheels
EncryptAfterAdvance(h, self, char) ==
    Only({IF a.exc # NoExc THEN [exc |-> a.exc, heap |-> a.heap, result |-> 0]
          ELSE Only({[exc |-> result.exc, heap |-> a.heap, result |-> result.value]
                     : result \in {Combine(a.heap, self, char)}})
          : a \in {LorenzMachine_advance(h, self)}})

\* LorenzMachine.encrypt_character
encrypt_character(h, self, char) ==
    Only({IF result.exc # NoExc THEN [exc |-> result.exc, heap |-> h, result |-> 0]
          ELSE Only({[exc |-> a.exc, heap |-> a.heap,
                      result |-> IF a.exc = NoExc THEN result.value ELSE 0]
                     : a \in {LorenzMachine_advance(h, self)}})
          : result \in {Combine(h, self, char)}})

RECURSIVE EncryptEach(_, _, _, _)
\* [self.encrypt_character(number) for number in message]
EncryptEach(h, self, message, encrypted_message) ==
    IF message = <<>>
    THEN [exc |-> NoExc, heap |-> h, result |-> encrypted_message]
    ELSE Only({IF r.exc # NoExc
               THEN [exc |-> r.exc, heap |-> r.heap, result |-> encrypted_message]
               ELSE EncryptEach(r.heap, self, Tail(message),
                                Append(encrypted_message, r.result))
               : r \in {encrypt_character(h, self, Head(message))}})

RECURSIVE JoinFormat(_)
\* ''.join(['{0:05b}'.format(number) for number in encrypted_message])
JoinFormat(encrypted_message) ==
    IF encrypted_message = <<>> THEN <<>>
    ELSE Format05b(Head(encrypted_message)) \o JoinFormat(Tail(encrypted_message))

\* LorenzMachine.encrypt_message: numbers are the codes encrypted before any
\* exception, text the returned string (one character per element)
encrypt_message(h, self, message) ==
    Only({[exc |-> r.exc, heap |-> r.heap, numbers |-> r.result,
           text |-> IF r.exc = NoExc THEN <<"0", "b">> \o JoinFormat(r.result)
                    ELSE <<>>]
          : r \in {EncryptEach(h, self, message, <<>>)}})

\* a get_config that steps the machine before it reads the wheels
GetConfigAfterAdvance(h, self) ==
    Only({[exc |-> a.exc, heap |-> a.heap,
           value |-> <<WheelSet_get_config(a.heap, self.k_set),
                       WheelSet_get_config(a.heap, self.s_set),
                       WheelSet_get_config(a.heap, self.m_set)>>]
          : a \in {LorenzMachine_advance(h, self)}})

\* LorenzMachine.get_config: the tuple returned, and the heap as the call
\* leaves it (no statement of the three get_config methods assigns)
LorenzMachine_get_config(h, self) ==
    [exc |-> NoExc, heap |-> h,
     value |-> <<WheelSet_get_config(h, self.k_set),
                 WheelSet_get_config(h, self.s_set),
                 WheelSet_get_config(h, self.m_set)>>]

\* ------------------------------------------------------------ construction

\* a wheel whose size is the length of its data
W(wheel_name, wheel_data, initial_position) ==
    Wheel(wheel_name, Len(wheel_data), initial_position, wheel_data)

\* every wheel of size 1..MaxSize: any bit pattern, any position in [0, size)
FreeWheels(wheel_name) ==
    UNION {{W(wheel_name, d, p) : d \in [1..n -> {0, 1}], p \in 0..(n - 1)}
           : n \in 1..MaxSize}

\* the K wheel sets of the checked configurations
KSetA ==
    <<W("k1", <<1, 0>>, 0), W("k2", <<0, 1, 1>>, 1), W("k3", <<1>>, 0),
      W("k4", <<0, 1>>, 1), W("k5", <<1, 1, 0>>, 2)>>

KSetB ==
    <<W("k1", <<0, 0, 1>>, 0), W("k2", <<1, 0>>, 0), W("k3", <<0, 1>>, 0),
      W("k4", <<1, 0, 0>>, 0), W("k5", <<0>>, 0)>>

\* the S wheel sets of the checked configurations
SSetA ==
    <<W("s1", <<0, 1>>, 0), W("s2", <<1, 1, 0>>, 0), W("s3", <<1, 0>>, 1),
      W("s4", <<0>>, 0), W("s5", <<1, 0, 1>>, 1)>>

SSetB ==
    <<W("s1", <<1, 0, 0>>, 2), W("s2", <<0, 1>>, 1), W("s3", <<1, 1>>, 0),
      W("s4", <<0, 1, 0>>, 0), W("s5", <<1, 0>>, 0)>>

\* second motor wheels of the checked configurations
M2Wheels ==
    {W("m2", <<1>>, 0), W("m2", <<0>>, 0), W("m2", <<1, 0>>, 0),
     W("m2", <<0, 1, 1>>, 2)}

\* motor wheel sets: the first wheel free
MSets == {<<m1, m2>> : m1 \in FreeWheels("m1"), m2 \in M2Wheels}

\* the wheels of one machine, K then S then M
ValidConfigs ==
    {[k |-> ks[1], s |-> ks[2], m |-> m]
     : ks \in {<<KSetA, SSetA>>, <<KSetB, SSetB>>}, m \in MSets}

Sender == "sender"

Receiver == "receiver"

MachineIds == {Sender, Receiver}

WheelsOf(cfg) == cfg.k \o cfg.s \o cfg.m

\* the wheel objects of two machines built from cfg: the sender's wheels, then
\* the receiver's, each a fresh object
BuildHeap(cfg) == WheelsOf(cfg) \o WheelsOf(cfg)

\* identities from + 1 .. from + n
Ids(from, n) == [i \in 1..n |-> from + i]

\* a machine built on the S wheel objects of the first machine, whatever its
\* own base
BuildMachineSharedS(cfg, base) ==
    LorenzMachine(Ids(base, Len(cfg.k)),
                  Ids(Len(cfg.k), Len(cfg.s)),
                  Ids(base + Len(cfg.k) + Len(cfg.s), Len(cfg.m)))

\* the machine whose wheel objects start after identity base
BuildMachine(cfg, base) ==
    LorenzMachine(Ids(base, Len(cfg.k)),
                  Ids(base + Len(cfg.k), Len(cfg.s)),
                  Ids(base + Len(cfg.k) + Len(cfg.s), Len(cfg.m)))

InitWith(cfg) ==
    /\ heap = BuildHeap(cfg)
    /\ machine = [id \in MachineIds |->
                    BuildMachine(cfg, IF id = Sender THEN 0 ELSE Len(WheelsOf(cfg)))]
    /\ initial = BuildHeap(cfg)
    /\ fed = [id \in MachineIds |-> <<>>]
    /\ out = [id \in MachineIds |-> <<>>]
    /\ call = [machine |-> "none", op |-> "none", arg |-> <<>>]
    /\ ret = [exc |-> NoExc, value |-> <<>>, text |-> <<>>]

Init == \E cfg \in ValidConfigs : InitWith(cfg)

\* constructions the constructors accept although the documentation rules
\* them out: nothing in Wheel, WheelSet, MotorWheelSet or LorenzMachine checks
\* its arguments
BaseK == <<W("k1", <<1, 1>>, 0), W("k2", <<0, 0>>, 0), W("k3", <<1, 0>>, 0),
           W("k4", <<0, 1>>, 1), W("k5", <<1, 1, 0>>, 2)>>

BaseS == <<W("s1", <<0, 1>>, 0), W("s2", <<1, 1, 0>>, 0), W("s3", <<1, 0>>, 1),
           W("s4", <<0>>, 0), W("s5", <<1, 0, 1>>, 1)>>

BaseM == <<W("m1", <<1, 0>>, 0), W("m2", <<1, 1>>, 0)>>

OddConfigs ==
    {\* initial position = size, on the first motor wheel
     [k |-> BaseK, s |-> BaseS, m |-> [BaseM EXCEPT ![1] = W("m1", <<1, 0>>, 2)]],
     \* initial position = size, on a K wheel
     [k |-> [BaseK EXCEPT ![1] = W("k1", <<1, 1>>, 2)], s |-> BaseS, m |-> BaseM],
     \* initial position -1
     [k |-> [BaseK EXCEPT ![2] = W("k2", <<0, 1>>, 0 - 1)], s |-> BaseS, m |-> BaseM],
     \* pattern longer than the size
     [k |-> [BaseK EXCEPT ![1] = Wheel("k1", 2, 0, <<1, 0, 1>>)], s |-> BaseS, m |-> BaseM],
     \* pattern shorter than the size
     [k |-> BaseK, s |-> [BaseS EXCEPT ![1] = Wheel("s1", 3, 0, <<0, 1>>)], m |-> BaseM],
     \* a pattern element other than 0 and 1, on the second motor wheel
     [k |-> BaseK, s |-> BaseS, m |-> [BaseM EXCEPT ![2] = W("m2", <<2, 1>>, 0)]],
     \* a pattern element other than 0 and 1, on a K wheel
     [k |-> [BaseK EXCEPT ![3] = W("k3", <<1, 2>>, 0)], s |-> BaseS, m |-> BaseM],
     \* size 0
     [k |-> BaseK, s |-> [BaseS EXCEPT ![2] = Wheel("s2", 0, 0, <<1>>)], m |-> BaseM],
     \* K and S wheel sets of 3 wheels
     [k |-> SubSeq(BaseK, 1, 3), s |-> SubSeq(BaseS, 1, 3), m |-> BaseM],
     \* a K wheel set of no wheel
     [k |-> <<>>, s |-> BaseS, m |-> BaseM],
     \* a motor wheel set of 3 wheels
     [k |-> BaseK, s |-> BaseS, m |-> Append(BaseM, W("m3", <<0, 1>>, 0))],
     \* a motor wheel set of 1 wheel
     [k |-> BaseK, s |-> BaseS, m |-> SubSeq(BaseM, 1, 1)]}

InitAny == \E cfg \in ValidConfigs \cup OddConfigs : InitWith(cfg)

\* ----------------------------------------------------------------- actions

\* symbol codes the callers feed
Codes == {0, 21}

Messages(n) == UNION {[1..len -> Codes] : len \in 0..n}

\* one call id.encrypt_character(char)
CallEncryptCharacter(id, char) ==
    \E r \in {encrypt_character(heap, machine[id], char)} :
        /\ heap' = r.heap
        /\ fed' = [fed EXCEPT ![id] = Append(@, char)]
        /\ out' = [out EXCEPT ![id] = IF r.exc = NoExc THEN Append(@, r.result) ELSE @]
        /\ call' = [machine |-> id, op |-> "encrypt_character", arg |-> <<char>>]
        /\ ret' = [exc |-> r.exc,
                   value |-> IF r.exc = NoExc THEN <<r.result>> ELSE <<>>,
                   text |-> <<>>]
        /\ UNCHANGED <<machine, initial>>

\* the sender encrypts one symbol
EncryptCharacter ==
    /\ Len(fed[Sender]) < MaxLen
    /\ \E char \in Codes : CallEncryptCharacter(Sender, char)

\* the sender encrypts a whole message
EncryptMessage ==
    \E message \in Messages(MaxLen - Len(fed[Sender])) :
      \E r \in {encrypt_message(heap, machine[Sender], message)} :
        LET passed == IF r.exc = NoExc THEN message
                      ELSE SubSeq(message, 1, Len(r.numbers) + 1)
        IN  /\ heap' = r.heap
            /\ fed' = [fed EXCEPT ![Sender] = @ \o passed]
            /\ out' = [out EXCEPT ![Sender] = @ \o r.numbers]
            /\ call' = [machine |-> Sender, op |-> "encrypt_message", arg |-> message]
            /\ ret' = [exc |-> r.exc, value |-> <<>>, text |-> r.text]
            /\ UNCHANGED <<machine, initial>>

\* the receiver is fed the sender's next output code
DecryptCharacter ==
    /\ Len(fed[Receiver]) < Len(out[Sender])
    /\ CallEncryptCharacter(Receiver, out[Sender][Len(fed[Receiver]) + 1])

Next == EncryptCharacter \/ EncryptMessage \/ DecryptCharacter

Spec == Init /\ [][Next]_vars

\* the same machine started from any construction the constructors accept
SpecAny == InitAny /\ [][Next]_vars

\* one call sender.get_config()
GetConfig ==
    \E r \in {LorenzMachine_get_config(heap, machine[Sender])} :
        /\ heap' = r.heap
        /\ call' = [machine |-> Sender, op |-> "get_config", arg |-> <<>>]
        /\ ret' = [exc |-> r.exc, value |-> r.value, text |-> <<>>]
        /\ UNCHANGED <<machine, initial, fed, out>>

\* one call sender.k_set.get_current_value() or sender.s_set.get_current_value()
GetCurrentValue ==
    \E set \in {"k_set", "s_set"} :
       \E r \in {WheelSet_get_current_value(heap, machine[Sender][set])} :
        /\ call' = [machine |-> Sender, op |-> "get_current_value", arg |-> <<set>>]
        /\ ret' = [exc |-> r.exc, value |-> <<r.value>>, text |-> <<>>]
        /\ UNCHANGED <<heap, machine, initial, fed, out>>

\* one call sender.m_set.is_active()
IsActive ==
    \E r \in {MotorWheelSet_is_active(heap, machine[Sender].m_set)} :
        /\ call' = [machine |-> Sender, op |-> "is_active", arg |-> <<>>]
        /\ ret' = [exc |-> r.exc, value |-> <<r.value>>, text |-> <<>>]
        /\ UNCHANGED <<heap, machine, initial, fed, out>>

NextReads == EncryptCharacter \/ GetConfig \/ GetCurrentValue \/ IsActive

\* the sender's encryption, symbol by symbol, with calls of its reading
\* methods in between
SpecReads == Init /\ [][NextReads]_vars

\* the sender encrypts the zero code: the output is the keystream value
RunCharacter ==
    /\ Len(fed[Sender]) < MaxRun
    /\ CallEncryptCharacter(Sender, 0)

\* one machine stepped on its own, symbol after symbol
SpecRun == Init /\ [][RunCharacter]_vars

\* ------------------------------------------------------------ properties

\* a wheel's position, as get_current_position reads it
Pos(h, w) == Wheel_get_current_position(h, w)

\* the position one advance after the current one
NextPos(h, w) == (h[w].current_position + 1) % h[w].wheel_size

\* the bit under a wheel's current position, for a position in [0, size)
BitAt(h, w) == h[w].wheel_data[h[w].current_position + 1]

\* K aggregate XOR S aggregate
KeystreamValue(h, self) ==
    XOR(WheelSet_get_current_value(h, self.k_set).value,
        WheelSet_get_current_value(h, self.s_set).value)

RECURSIVE Keystream(_, _, _)
\* the keystream values read before each of n successive calls of
\* self.advance() from heap h: the first is read from h itself
Keystream(h, self, n) ==
    IF n = 0 THEN <<>>
    ELSE <<KeystreamValue(h, self)>>
         \o Keystream(LorenzMachine_advance(h, self).heap, self, n - 1)

\* the keystream of machine id from its construction, n values
KeystreamOf(id, n) == Keystream(initial, machine[id], n)

RECURSIVE Pow2(_)
Pow2(n) == IF n = 0 THEN 1 ELSE 2 * Pow2(n - 1)

\* the i-th group of FormatWidth characters after the "0b" of a returned text
Group(text, i) ==
    SubSeq(text, Len(<<"0", "b">>) + (FormatWidth * (i - 1)) + 1,
                 Len(<<"0", "b">>) + (FormatWidth * i))

\* the last call was the sender's encrypt_message
LastWasMessage == call.op = "encrypt_message" /\ call.machine = Sender

\* C1: a second machine built with the same patterns and initial positions
\* and fed the first machine's output codes in order gives back the codes the
\* first machine was fed.
C1_RoundTrip ==
    /\ Len(out[Receiver]) <= Len(fed[Sender])
    /\ \A i \in 1..Len(out[Receiver]) : out[Receiver][i] = fed[Sender][i]
    /\ Len(out[Receiver]) = Len(fed[Receiver])

C1_Witness ==
    /\ Len(out[Receiver]) = MaxLen
    /\ out[Receiver] = fed[Sender]
    /\ \A i \in 1..MaxLen : out[Sender][i] # fed[Sender][i]
    /\ out[Sender][1] # XOR(out[Sender][2], XOR(fed[Sender][1], fed[Sender][2]))

\* C3: the i-th code a machine encrypts is combined with the keystream value
\* of the state reached after exactly i - 1 advances from the initial state
\* (the first code with the keystream of the initial positions), and the text
\* encrypt_message returns holds, group by group and in order, the codes of
\* its message combined that way.
C3_KeystreamTiming ==
    /\ \A id \in MachineIds :
          /\ Len(out[id]) = Len(fed[id])
          /\ \E ks \in {KeystreamOf(id, Len(fed[id]))} :
                \A i \in 1..Len(out[id]) : out[id][i] = XOR(fed[id][i], ks[i])
    /\ LastWasMessage =>
          \E ks \in {KeystreamOf(Sender, Len(fed[Sender]))} :
             LET start == Len(fed[Sender]) - Len(call.arg)
             IN  \A i \in 1..Len(call.arg) :
                    Group(ret.text, i) = Format05b(XOR(call.arg[i], ks[start + i]))

C3_Witness ==
    /\ LastWasMessage
    /\ Len(call.arg) = MaxLen
    /\ call.arg[1] = call.arg[2]
    /\ out[Sender][1] # out[Sender][2]
    /\ Group(ret.text, 1) # Group(ret.text, 2)

WellFormedWheel(w) ==
    /\ w.wheel_size >= 1
    /\ Len(w.wheel_data) = w.wheel_size
    /\ \A i \in 1..Len(w.wheel_data) : w.wheel_data[i] \in {0, 1}
    /\ w.current_position \in 0..(w.wheel_size - 1)

\* a machine of NumKS K wheels, NumKS S wheels and NumM motor wheels, all
\* well formed in heap h
WellFormedMachine(h, self) ==
    /\ Len(self.k_set) = NumKS
    /\ Len(self.s_set) = NumKS
    /\ Len(self.m_set) = NumM
    /\ \A bank \in {self.k_set, self.s_set, self.m_set} :
          \A j \in 1..Len(bank) : WellFormedWheel(h[bank[j]])

\* C5 as stated: a machine whose construction was invalid never comes to
\* exist, so every machine that has encrypted a symbol was constructed well
\* formed.
C5_OnlyWellFormedMachinesRun ==
    \A id \in MachineIds : out[id] # <<>> => WellFormedMachine(initial, machine[id])

\* this step encrypted exactly one symbol on machine id: one call of advance
OneSymbol(id) == Len(out'[id]) = Len(out[id]) + 1

\* C6: in every step every K wheel and the first motor wheel advance by one,
\* and every S wheel advances by one if the second motor wheel's bit at its
\* position after this step's motor advance is 1; otherwise no S wheel moves.
C6_SGating ==
    [][\A id \in MachineIds : OneSymbol(id) =>
          LET self == machine[id]
          IN  /\ \A j \in 1..Len(self.k_set) :
                    Pos(heap', self.k_set[j]) = NextPos(heap, self.k_set[j])
              /\ Pos(heap', self.m_set[1]) = NextPos(heap, self.m_set[1])
              /\ \A j \in 1..Len(self.s_set) :
                    Pos(heap', self.s_set[j]) =
                        IF BitAt(heap', self.m_set[2]) = 1
                        THEN NextPos(heap, self.s_set[j])
                        ELSE Pos(heap, self.s_set[j])]_vars

\* two symbols encrypted, the S wheels advanced in exactly one of the steps
C6_Witness ==
    LET s1 == machine[Sender].s_set[1]
    IN  /\ Len(out[Sender]) = 2
        /\ heap[s1].wheel_size > 1
        /\ Pos(heap, s1) = NextPos(initial, s1)

\* C7: on every motor advance the first motor wheel advances by one, and the
\* second advances by one if and only if the first wheel's bit at its new
\* position is 1; so with first-wheel pattern [1] the second wheel advances
\* in every step and with pattern [0,0] it never does.
C7_MotorGating ==
    [][\A id \in MachineIds : OneSymbol(id) =>
          LET m1 == machine[id].m_set[1]
              m2 == machine[id].m_set[2]
          IN  /\ Pos(heap', m1) = NextPos(heap, m1)
              /\ Pos(heap', m2) = IF BitAt(heap', m1) = 1
                                  THEN NextPos(heap, m2) ELSE Pos(heap, m2)
              /\ heap[m1].wheel_data = <<1>> => Pos(heap', m2) = NextPos(heap, m2)
              /\ heap[m1].wheel_data = <<0, 0>> => Pos(heap', m2) = Pos(heap, m2)]_vars

\* two symbols encrypted, the second motor wheel advanced in exactly one step
C7_Witness ==
    LET m2 == machine[Sender].m_set[2]
    IN  /\ Len(out[Sender]) = 2
        /\ heap[m2].wheel_size > 1
        /\ Pos(heap, m2) = NextPos(initial, m2)

\* the wheel's position is a valid index and the bit there is 0 or 1
Readable(h, w) ==
    /\ 0 <= h[w].current_position
    /\ h[w].current_position < Len(h[w].wheel_data)
    /\ BitAt(h, w) \in {0, 1}

\* the current bits of a wheel set, in wheel order
Bits(h, wheels) == [j \in 1..Len(wheels) |-> BitAt(h, wheels[j])]

RECURSIVE WeightedSum(_, _)
\* the sum of bits[j] * 2^(j-1), the first bit the least significant
WeightedSum(bits, j) ==
    IF j > Len(bits) THEN 0 ELSE (bits[j] * Pow2(j - 1)) + WeightedSum(bits, j + 1)

\* C8: the aggregate value of a wheel set of N wheels is the sum over the
\* wheels, in order, of bit_j * 2^j (j from 0): the first wheel is the least
\* significant bit; it lies in [0, 2^N); bits [1,0,1] give 5, [1,0,0] give 1.
C8_AggregateBitOrder ==
    \A id \in MachineIds :
       \A wheels \in {machine[id].k_set, machine[id].s_set, machine[id].m_set} :
          (wheels # <<>> /\ \A j \in 1..Len(wheels) : Readable(heap, wheels[j])) =>
             \E r \in {WheelSet_get_current_value(heap, wheels)} :
                /\ r.exc = NoExc
                /\ r.value = WeightedSum(Bits(heap, wheels), 1)
                /\ r.value \in 0..(Pow2(Len(wheels)) - 1)
                /\ Bits(heap, wheels) = <<1, 0, 1>> => r.value = 5
                /\ Bits(heap, wheels) = <<1, 0, 0>> => r.value = 1

C8_Witness ==
    /\ Len(out[Sender]) = 1
    /\ Bits(initial, machine[Sender].k_set) = <<1, 0, 1>>
    /\ Bits(heap, machine[Sender].k_set) = <<1, 0, 0>>
    /\ WheelSet_get_current_value(heap, machine[Sender].k_set).value = 1

\* the wheels of machine id that advance once in every step
EveryStepWheels(id) ==
    {machine[id].k_set[j] : j \in 1..Len(machine[id].k_set)} \cup {machine[id].m_set[1]}

\* C9: a wheel of size N is back at its original position, with its original
\* current value, after N advances and after no smaller positive number of
\* advances; an advance changes nothing but the position.
C9_Wraparound ==
    \A id \in MachineIds : \A w \in EveryStepWheels(id) :
       LET n == Len(out[id])
           N == heap[w].wheel_size
       IN  /\ (n % N = 0) <=> (Pos(heap, w) = Pos(initial, w))
           /\ n % N = 0 => BitAt(heap, w) = BitAt(initial, w)
           /\ [heap[w] EXCEPT !.current_position = 0]
                 = [initial[w] EXCEPT !.current_position = 0]

\* a wheel of size 2 started at position 1 and advanced twice
C9_Witness ==
    LET m1 == machine[Sender].m_set[1]
    IN  /\ heap[m1].wheel_size = 2
        /\ Len(out[Sender]) = heap[m1].wheel_size
        /\ Pos(initial, m1) = 1
        /\ Pos(heap, m1) = 1

\* C10: with K and S wheel sets of NumKS wheels the keystream value is in
\* [0, 2^NumKS) and every code in that range is encrypted to a code in it.
C10_OutputWidth ==
    \A id \in MachineIds :
       /\ Len(machine[id].k_set) = NumKS /\ Len(machine[id].s_set) = NumKS
       /\ KeystreamValue(heap, machine[id]) \in 0..(Pow2(NumKS) - 1)
       /\ \A i \in 1..Len(out[id]) :
             fed[id][i] \in 0..(Pow2(NumKS) - 1) => out[id][i] \in 0..(Pow2(NumKS) - 1)

\* the keystream set the top bit of a code that did not have it
C10_Witness ==
    /\ out[Sender] # <<>>
    /\ fed[Sender][1] < Pow2(NumKS - 1)
    /\ out[Sender][1] >= Pow2(NumKS - 1)

\* the wheels of machine id, of all three wheel sets
MachineWheels(id) ==
    LET self == machine[id]
    IN  {self.k_set[j] : j \in 1..Len(self.k_set)}
           \cup {self.s_set[j] : j \in 1..Len(self.s_set)}
           \cup {self.m_set[j] : j \in 1..Len(self.m_set)}

\* C11: in every state reached by steps from a valid construction every
\* wheel's position is in [0, size), so its current value is read at a valid
\* index, and no wheel's pattern, size or name ever changes.
C11_PositionInvariant ==
    \A id \in MachineIds : \A w \in MachineWheels(id) :
       /\ heap[w].current_position \in 0..(heap[w].wheel_size - 1)
       /\ heap[w].current_position < Len(heap[w].wheel_data)
       /\ Wheel_get_current_value(heap, w) =
             [exc |-> NoExc, value |-> heap[w].wheel_data[heap[w].current_position + 1]]
       /\ heap[w].wheel_data = initial[w].wheel_data
       /\ heap[w].wheel_size = initial[w].wheel_size
       /\ heap[w].wheel_name = initial[w].wheel_name

\* a gated wheel of size 3 started at its last position has wrapped to 0 and
\* gone on to position 1
C11_Witness ==
    LET m2 == machine[Sender].m_set[2]
    IN  /\ heap[m2].wheel_size = 3
        /\ Pos(initial, m2) = heap[m2].wheel_size - 1
        /\ Pos(heap, m2) = 1
        /\ ret.exc = NoExc

\* C12: after n steps every K wheel and the first motor wheel is at
\* (initial position + n) mod size, whatever the patterns of the wheels.
C12_UnconditionalAdvance ==
    \A id \in MachineIds : \A w \in EveryStepWheels(id) :
       Pos(heap, w) = (Pos(initial, w) + Len(out[id])) % heap[w].wheel_size

\* three steps with the second motor wheel's only bit 0, so that no S wheel
\* moved, while a K wheel of size 3 went once around
C12_Witness ==
    LET self == machine[Sender]
    IN  /\ Len(out[Sender]) = 3
        /\ heap[self.m_set[2]].wheel_data = <<0>>
        /\ \A j \in 1..Len(self.s_set) : Pos(heap, self.s_set[j]) = Pos(initial, self.s_set[j])
        /\ \E j \in 1..Len(self.k_set) :
              /\ heap[self.k_set[j]].wheel_size = 3
              /\ Pos(heap, self.k_set[j]) = Pos(initial, self.k_set[j])

\* the operations that read a machine
ReadOps == {"get_config", "get_current_value", "is_active"}

\* C13: a call of get_config, of a wheel set's get_current_value or of
\* is_active changes no wheel (position, pattern, size or name) and nothing
\* fed or put out; and however many such calls lie between the encryptions,
\* every output is the symbol fed XOR the keystream value of the machine
\* stepped from its construction once per symbol before it.
C13_ReadsArePure ==
    /\ [](\A id \in MachineIds :
            \E ks \in {KeystreamOf(id, Len(out[id]))} :
               \A i \in 1..Len(out[id]) : out[id][i] = XOR(fed[id][i], ks[i]))
    /\ [][call'.op \in ReadOps => (heap' = heap /\ fed' = fed /\ out' = out)]_vars

\* the configuration was read after one encryption and before the next:
\* the snapshot returned shows the first K wheel where the step left it
C13_Witness ==
    LET k1 == machine[Sender].k_set[1]
    IN  /\ call = [machine |-> Sender, op |-> "get_config", arg |-> <<>>]
        /\ Len(out[Sender]) = 1
        /\ Pos(heap, k1) = 1
        /\ SubSeq(ret.value[1], 1, 4) = <<"wheel name: ", "k1", "; current_position: ", "1">>

RECURSIVE GCD(_, _)
GCD(a, b) == IF b = 0 THEN a ELSE GCD(b, a % b)

LCM(a, b) == (a * b) \div GCD(a, b)

RECURSIVE LcmOfSizes(_, _, _)
\* the least common multiple of the sizes of wheels[i..]
LcmOfSizes(h, wheels, i) ==
    IF i > Len(wheels) THEN 1
    ELSE LCM(h[wheels[i]].wheel_size, LcmOfSizes(h, wheels, i + 1))

\* the least common multiple of the sizes of all wheels of machine id
LcmAll(id) ==
    LcmOfSizes(initial, machine[id].k_set \o machine[id].s_set \o machine[id].m_set, 1)

\* the least common multiple of the sizes of the wheels that advance in
\* every step: the K wheels and the first motor wheel
LcmEveryStep(id) ==
    LcmOfSizes(initial, Append(machine[id].k_set, machine[id].m_set[1]), 1)

\* every wheel of machine id is as it was at construction
BackAtStart(id) == \A w \in MachineWheels(id) : heap[w] = initial[w]

\* C14 as stated: for every choice of patterns the machine is back in its
\* initial wheel-position state after n > 0 steps exactly when n is a
\* multiple of the least common multiple of the sizes of all its wheels.
C14_PeriodIsLcmOfAllSizes ==
    \E n \in {Len(out[Sender])} :
       n > 0 => (BackAtStart(Sender) <=> n % LcmAll(Sender) = 0)

\* C14, amended: no step of a valid machine fails; the machine is back in its
\* initial state only after a multiple of the least common multiple of the
\* sizes of the K wheels and the first motor wheel, and after every such
\* multiple these wheels are back at their initial positions. (When the
\* gated wheels are back depends on the motor patterns.)
C14_PeriodOfEveryStepWheels ==
    \E n \in {Len(fed[Sender])} :
       /\ ret.exc = NoExc
       /\ Len(out[Sender]) = n
       /\ BackAtStart(Sender) => n % LcmEveryStep(Sender) = 0
       /\ n % LcmEveryStep(Sender) = 0 =>
             \A w \in EveryStepWheels(Sender) : heap[w] = initial[w]

\* the machine is back in its initial state, its gated wheels having gone
\* around, after more steps than the least common multiple of all sizes
C14_Witness ==
    /\ BackAtStart(Sender)
    /\ Len(out[Sender]) = 2 * LcmAll(Sender)
    /\ heap[machine[Sender].m_set[2]].wheel_size = 2
    /\ heap[machine[Sender].m_set[1]].wheel_data = <<1, 0>>

WheelSeq(id) == machine[id].k_set \o machine[id].s_set \o machine[id].m_set

\* C16: two machines constructed identically and fed different codes are,
\* after the same number of symbols, in the same wheel-position state; and
\* the XOR of their outputs equals the XOR of their inputs, symbol by symbol.
C16_PlaintextIndependence ==
    /\ \A i \in 1..Len(out[Receiver]) :
          XOR(out[Sender][i], out[Receiver][i]) = XOR(fed[Sender][i], fed[Receiver][i])
    /\ Len(out[Sender]) = Len(out[Receiver]) =>
          \A j \in 1..Len(WheelSeq(Sender)) :
             heap[WheelSeq(Sender)[j]] = heap[WheelSeq(Receiver)[j]]

\* both machines have taken MaxLen symbols, no symbol fed to the one equal
\* to the symbol fed to the other, and the wheels have moved
C16_Witness ==
    /\ Len(out[Sender]) = MaxLen /\ Len(out[Receiver]) = MaxLen
    /\ \A i \in 1..MaxLen : fed[Sender][i] # fed[Receiver][i]
    /\ fed[Sender][1] # fed[Sender][2]
    /\ heap # initial

\* 1 if the wheel's current bit is 1, else 0
OneIfSet(h, w) == IF BitAt(h, w) = 1 THEN 1 ELSE 0

\* wheel w is c advances from its initial position
AdvancedBy(h, w, c) == Pos(h, w) = (Pos(initial, w) + c) % h[w].wheel_size

RECURSIVE LockstepAlong(_, _, _, _, _, _)
\* h is the heap after k of n steps of self from its construction; c counts
\* the steps so far after whose motor advance the second motor wheel's bit
\* was 1, d those after which the first motor wheel's bit was 1. In h and in
\* every later state up to the n-th every S wheel is c advances, and the
\* second motor wheel d advances, from its initial position; the n-th state
\* is the heap reached.
LockstepAlong(h, self, c, d, k, n) ==
    /\ c \in 0..k /\ d \in 0..k
    /\ \A j \in 1..Len(self.s_set) : AdvancedBy(h, self.s_set[j], c)
    /\ AdvancedBy(h, self.m_set[2], d)
    /\ IF k = n
       THEN /\ \A j \in 1..Len(self.s_set) : heap[self.s_set[j]] = h[self.s_set[j]]
            /\ \A j \in 1..Len(self.m_set) : heap[self.m_set[j]] = h[self.m_set[j]]
       ELSE \E a \in {LorenzMachine_advance(h, self).heap} :
               LockstepAlong(a, self, c + OneIfSet(a, self.m_set[2]),
                             d + OneIfSet(a, self.m_set[1]), k + 1, n)

\* C18: after n steps every S wheel is at (initial position + c) mod size for
\* one count c in 0..n, the number of steps so far after whose motor advance
\* the second motor wheel's bit was 1; and the second motor wheel is at
\* (initial position + d) mod size for d in 0..n, the number of steps after
\* which the first motor wheel's bit was 1. (Evaluated at the end of a run,
\* for every state along the run.)
C18_SLockstep ==
    \A id \in MachineIds :
       Len(out[id]) = MaxRun =>
          LockstepAlong(initial, machine[id], 0, 0, 0, Len(out[id]))

\* the S wheels have advanced in some steps and stood in others, and an S
\* wheel of size 2 and one of size 3 have both gone around
C18_Witness ==
    LET self == machine[Sender]
    IN  /\ Len(out[Sender]) = MaxRun
        /\ heap[self.m_set[2]].wheel_data = <<0, 1, 1>>
        /\ heap[self.m_set[1]].wheel_data = <<1, 0>>
        /\ \E j \in 1..Len(self.s_set) : heap[self.s_set[j]].wheel_size = 3

RECURSIVE Trajectory(_, _, _)
\* the heaps before and after each of n successive calls of self.advance()
\* from heap h: n + 1 heaps, the first h itself
Trajectory(h, self, n) ==
    IF n = 0 THEN <<h>>
    ELSE <<h>> \o Trajectory(LorenzMachine_advance(h, self).heap, self, n - 1)

RECURSIVE Repositioned(_, _, _)
\* the heaps that differ from h at most in the positions of wheels[i..],
\* each at any position in [0, size)
Repositioned(h, wheels, i) ==
    IF i > Len(wheels) THEN {h}
    ELSE UNION {{[g EXCEPT ![wheels[i]].current_position = p]
                 : p \in 0..(h[wheels[i]].wheel_size - 1)}
                : g \in Repositioned(h, wheels, i + 1)}

\* C17: two states of a machine that differ in the positions of its motor
\* wheels or S wheels have different successors; along a run no state is
\* reached from two different states; and the run comes back to exactly the
\* initial state. (The run's part is evaluated at the end of a run of MaxRun
\* steps, the successors in the states of its first MaxLen steps.)
C17_StepInjective ==
    \E self \in {machine[Sender]} :
       /\ Len(out[Sender]) <= MaxLen =>
             \E next \in {LorenzMachine_advance(heap, self).heap} :
                \A other \in Repositioned(heap, self.m_set \o self.s_set, 1) :
                   other # heap => LorenzMachine_advance(other, self).heap # next
       /\ Len(out[Sender]) = MaxRun =>
             \E T \in {Trajectory(initial, self, MaxRun)} :
                /\ T[MaxRun + 1] = heap
                /\ \E n \in 1..MaxRun : T[n + 1] = initial
                /\ \A i \in 1..MaxRun : \A j \in 1..MaxRun :
                      T[i + 1] = T[j + 1] => T[i] = T[j]

\* a run of MaxRun steps in which the machine came back to its initial
\* state, and not within as many steps as the least common multiple of its
\* wheel sizes
C17_Witness ==
    /\ Len(out[Sender]) = MaxRun
    /\ \E T \in {Trajectory(initial, machine[Sender], MaxRun)} :
          /\ \E n \in 1..MaxRun : T[n + 1] = initial
          /\ \A n \in 1..LcmAll(Sender) : T[n + 1] # initial

====
